---- MODULE Spec2Model ----
(***************************************************************************)
(* A model of resume_generator.py: process_all_jobs and the three document *)
(* builders it calls for every posting, the fuzzy matching that feeds the  *)
(* compatibility matrix, and the file system the documents are saved to.   *)
(*                                                                         *)
(* A Python str is a sequence of characters; a literal of the source that  *)
(* no input can contain is kept as one element of the sequence.  A dict is *)
(* a function whose DOMAIN is its key set, so that `"k" in d` is           *)
(* "k" \in DOMAIN d and d["k"] on a missing key is a KeyError.             *)
(*                                                                         *)
(* Two things the script calls are not its own code.  The scorer behind    *)
(* process.extractOne is a deterministic function of the query and the     *)
(* choice: the variable score is that function, any one with values in the *)
(* score range.  extractOne returns None for no choices (fuzzywuzzy 0.17   *)
(* on; earlier releases raise at the same place), and unpacking None is    *)
(* the TypeError of the model.  doc.save writes the file or raises: the    *)
(* variable sink_fails holds the documents it raises on.                   *)
(***************************************************************************)
EXTENDS Integers, Sequences, FiniteSets, TLC

VARIABLES
    user_info,         \* the profile dict handed to process_all_jobs
    job_descriptions,  \* the list of posting dicts
    score,             \* the scorer of process.extractOne: (query, choice) -> score
    sink_fails,        \* the (posting, document kind) pairs whose doc.save raises
    runs,              \* how many times process_all_jobs is invoked on these inputs
    run,               \* the invocation in progress
    pc,                \* position inside process_all_jobs
    i,                 \* index of the posting of the current loop iteration
    dirs,              \* file system: the directories that exist
    files,             \* file system: path -> document saved there
    log,               \* this invocation's builder calls that reached doc.save
    prev,              \* the log of the previous invocation
    matched,           \* this invocation's calls of create_compatibility_matrix
    error              \* the exception that ended the invocation, or "none"

vars == <<user_info, job_descriptions, score, sink_fails, runs, run, pc, i, dirs, files,
          log, prev, matched, error>>

\* ------------------------------------------------------------------ bounds

MaxJobs == 2
MaxRuns == 2
MaxResp == 2
MaxList == 1
MaxScore == 1
MaxStr == 4
MaxPool == 3
MaxRepeat == 3

\* ----------------------------------------------------------------- strings

Range(s) == {s[k] : k \in 1..Len(s)}

SeqUpTo(S, n) == UNION {[1..k -> S] : k \in 0..n}

\* The characters str.strip() removes that the inputs can hold.
Whitespace == {" ", "\t", "\n"}

\* A replace that finds nothing to replace.
ReplaceNothing(s, old, new) == s

\* str.replace(old, new) for one-character old and new.
Replace(s, old, new) == [k \in 1..Len(s) |-> IF s[k] = old THEN new ELSE s[k]]

\* str.lstrip(), str.rstrip(), str.strip()
RECURSIVE LStrip(_)
LStrip(s) ==
    IF s # <<>> /\ Head(s) \in Whitespace THEN LStrip(Tail(s)) ELSE s

RECURSIVE RStrip(_)
RStrip(s) ==
    IF s # <<>> /\ s[Len(s)] \in Whitespace
    THEN RStrip(SubSeq(s, 1, Len(s) - 1))
    ELSE s

Strip(s) == RStrip(LStrip(s))

\* str.split(sep): the pieces between the separators, empty pieces kept, so that
\* a string with k separators gives k + 1 pieces.
RECURSIVE SplitFrom(_, _, _)
SplitFrom(s, sep, cur) ==
    IF s = <<>> THEN <<cur>>
    ELSE IF Head(s) = sep THEN <<cur>> \o SplitFrom(Tail(s), sep, <<>>)
    ELSE SplitFrom(Tail(s), sep, Append(cur, Head(s)))

RECURSIVE DropEmpty(_)
DropEmpty(ss) ==
    IF ss = <<>> THEN <<>>
    ELSE IF Head(ss) = <<>> THEN DropEmpty(Tail(ss))
    ELSE <<Head(ss)>> \o DropEmpty(Tail(ss))

\* A split that leaves the empty pieces out.
SplitSkippingEmpty(s, sep) == DropEmpty(SplitFrom(s, sep, <<>>))

Split(s, sep) == SplitFrom(s, sep, <<>>)

\* os.path.join(a, b) for a relative b.
PathJoin(a, b) == a \o <<"/">> \o b

\* ------------------------------------------------------------ style model

\* set_font: the run's text with the font name, size, weight and colour set.
set_font(text, font_name, size, bold, color) ==
    [text |-> text, font |-> font_name, size |-> size, bold |-> bold,
     color |-> color]

\* set_cell_border / set_cell_background_color write into the cell's properties.
set_cell_border(cell) == [cell EXCEPT !.border = "single"]

set_cell_background_color(cell, bg_color_hex) == [cell EXCEPT !.shd = bg_color_hex]

EmptyCell == [runs |-> <<>>, alignment |-> "DEFAULT", border |-> "none", shd |-> "none"]

\* set_cell_style: one run with the text, the alignment, the border, the shading.
set_cell_style(cell, text, font_name, size, bold, alignment, bg_color, text_color) ==
    LET withRun == [cell EXCEPT
                      !.runs = Append(@, set_font(text, font_name, size, bold, text_color)),
                      !.alignment = alignment]
        bordered == set_cell_border(withRun)
    IN  IF bg_color # "none" THEN set_cell_background_color(bordered, bg_color)
        ELSE bordered

\* add_paragraph: a paragraph of one Arial 11pt run appended to the document.
add_paragraph(doc, text, bold) ==
    Append(doc, [runs |-> <<set_font(text, "Arial", 11, bold, "none")>>,
                 alignment |-> "DEFAULT"])

RECURSIVE add_paragraphs(_, _, _)
add_paragraphs(doc, prefix, items) ==
    IF items = <<>> THEN doc
    ELSE add_paragraphs(add_paragraph(doc, prefix \o Head(items), FALSE),
                        prefix, Tail(items))

\* ---------------------------------------------------------------- matching

\* process.extractWithoutOrder with the default score_cutoff of 0: every choice is
\* yielded with its score, in the order of the choices.
extractWithoutOrder(query, choices) ==
    [k \in 1..Len(choices) |-> <<choices[k], score[<<query, choices[k]>>]>>]

\* The same scan replacing the best on an equal key as well.
RECURSIVE PyMaxKeepLast(_, _)
PyMaxKeepLast(best, rest) ==
    IF rest = <<>> THEN best
    ELSE PyMaxKeepLast(IF Head(rest)[2] >= best[2] THEN Head(rest) ELSE best,
                       Tail(rest))

\* Python's max(best_list, key=lambda i: i[1]): a later element replaces the best
\* so far only when its key is strictly larger.
RECURSIVE PyMax(_, _)
PyMax(best, rest) ==
    IF rest = <<>> THEN best
    ELSE PyMax(IF Head(rest)[2] > best[2] THEN Head(rest) ELSE best, Tail(rest))

\* Python's None.
None == <<>>

\* process.extractOne: the best (choice, score) pair, or None when max() finds
\* nothing to compare.
extractOne(query, choices) ==
    LET best_list == extractWithoutOrder(query, choices)
    IN  IF best_list = <<>> THEN None
        ELSE PyMax(Head(best_list), Tail(best_list))

\* An unpacking that lets None through.
UnpackNeverRaises(responsibility, experiences) == FALSE

\* find_best_match unpacks extractOne's result into two names: unpacking None is
\* a TypeError.

find_best_match_raises(responsibility, experiences) ==
    extractOne(responsibility, experiences) = None

find_best_match(responsibility, experiences) ==
    LET best == extractOne(responsibility, experiences)
    IN  IF best = None THEN None ELSE best[1]

\* The pool with the experience results put first.
PoolResultsFirst(u) ==
    [k \in 1..Len(u.experience) |-> u.experience[k].results]
        \o u.key_achievements \o u.additional_skills

\* The evidence pool of create_intelligent_compatibility_matrix.
all_experiences(u) ==
    u.key_achievements
        \o [k \in 1..Len(u.experience) |-> u.experience[k].results]
        \o u.additional_skills

\* A dict in insertion order is a sequence of (key, value) pairs with unique keys.

\* An assignment that takes every key for new.
DictSetAppendAlways(d, key, value) == Append(d, <<key, value>>)

\* d[key] = value: a new key goes last, a known key keeps its place.
DictSet(d, key, value) ==
    IF \E k \in 1..Len(d) : d[k][1] = key
    THEN [k \in 1..Len(d) |-> IF d[k][1] = key THEN <<key, value>> ELSE d[k]]
    ELSE Append(d, <<key, value>>)

\* The loop of create_intelligent_compatibility_matrix over the responsibilities
\* from index `from` on: the dict so far, the calls of find_best_match made, and
\* whether one of them raised (the loop stops there).
RECURSIVE match_loop(_, _, _, _)
match_loop(responsibilities, experiences, from, acc) ==
    IF from > Len(responsibilities) THEN acc
    ELSE LET responsibility == responsibilities[from]
             called == [acc EXCEPT !.calls = Append(@, <<responsibility, experiences>>)]
         IN  IF find_best_match_raises(responsibility, experiences)
             THEN [called EXCEPT !.raised = "TypeError"]
             ELSE match_loop(responsibilities, experiences, from + 1,
                    [called EXCEPT !.compatibility_data =
                        DictSet(@, responsibility,
                                find_best_match(responsibility, experiences))])

\* ------------------------------------------------------ compatibility matrix

\* The literal "U+2022 space" that starts a bulleted line.
Bullet == <<"(U+2022) ">>

\* One run per line of the matched evidence: a bullet, the line stripped, a break.
result_runs(result) ==
    LET lines == Split(result, "\n")
    IN  [k \in 1..Len(lines) |->
            set_font(Bullet \o Strip(lines[k]) \o <<"\n">>,
                     "Calibri", 11, FALSE, "FFFFFF")]

header_row ==
    << set_cell_style(EmptyCell, <<"JOB RESPONSIBILITIES">>, "Calibri", 12, TRUE,
                      "CENTER", "4472C4", "FFFFFF"),
       set_cell_style(EmptyCell, <<"DEMONSTRATED RESULTS">>, "Calibri", 12, TRUE,
                      "CENTER", "4472C4", "FFFFFF") >>

data_row(responsibility, result) ==
    << set_cell_style(EmptyCell, responsibility, "Calibri", 11, FALSE,
                      "LEFT", "1F4E78", "FFFFFF"),
       set_cell_border(set_cell_background_color(
           [EmptyCell EXCEPT !.runs = result_runs(result), !.alignment = "LEFT"],
           "2E2E2E")) >>

\* The data rows added above the earlier ones instead of below.
RowsReversed(compatibility_data) ==
    <<header_row>> \o
    [k \in 1..Len(compatibility_data) |->
        data_row(compatibility_data[Len(compatibility_data) + 1 - k][1],
                 compatibility_data[Len(compatibility_data) + 1 - k][2])]

\* A table created with a second, empty row under the header.
RowsWithSpareRow(compatibility_data) ==
    <<header_row, <<EmptyCell, EmptyCell>>>> \o
    [k \in 1..Len(compatibility_data) |->
        data_row(compatibility_data[k][1], compatibility_data[k][2])]

\* The table: the header row, then table.add_row() once per item of the dict.
table_rows(compatibility_data) ==
    <<header_row>> \o
    [k \in 1..Len(compatibility_data) |->
        data_row(compatibility_data[k][1], compatibility_data[k][2])]

\* create_compatibility_matrix up to doc.save: the document and its path.
create_compatibility_matrix(u, job, compatibility_data, dir) ==
    IF ~({"name"} \subseteq DOMAIN u /\ {"title"} \subseteq DOMAIN job)
    THEN [raised |-> "KeyError"]
    ELSE [raised |-> "none",
          doc |-> << [margins |-> 72],
                     [runs |-> <<set_font(<<"Compatibility Matrix for ">> \o job.title,
                                          "Calibri", 14, TRUE, "none")>>,
                      alignment |-> "CENTER"],
                     [rows |-> table_rows(compatibility_data),
                      widths |-> <<260, 260>>, autofit |-> FALSE] >>,
          path |-> PathJoin(dir, u.name \o <<"_Compatibility_Matrix_for_">>
                                     \o job.title \o <<".docx">>)]

\* create_intelligent_compatibility_matrix up to doc.save.
create_intelligent_compatibility_matrix(u, job, dir) ==
    IF ~({"key_achievements", "experience", "additional_skills"} \subseteq DOMAIN u)
       \/ ~("responsibilities" \in DOMAIN job)
    THEN [raised |-> "KeyError", calls |-> <<>>]
    ELSE LET m == match_loop(job.responsibilities, all_experiences(u), 1,
                             [raised |-> "none", calls |-> <<>>,
                              compatibility_data |-> <<>>])
         IN  IF m.raised # "none" THEN [raised |-> m.raised, calls |-> m.calls]
             ELSE LET c == create_compatibility_matrix(u, job, m.compatibility_data, dir)
                  IN  IF c.raised # "none" THEN [raised |-> c.raised, calls |-> m.calls]
                      ELSE [raised |-> "none", calls |-> m.calls,
                            compatibility_data |-> m.compatibility_data,
                            doc |-> c.doc, path |-> c.path]

\* ------------------------------------------------------------------ resume

\* The keys create_resume and create_cover_letter read without a presence check.
ContactKeys == {"name", "location", "phone", "email", "linkedin"}

contact_line(u) ==
    u.location \o <<" | ">> \o u.phone \o <<" | ">> \o u.email
        \o <<" | ">> \o u.linkedin

\* `"key" in user_info and user_info["key"]`: present and not empty.
Truthy(u, key) == key \in DOMAIN u /\ u[key] # <<>>

resume_header(u) ==
    [runs |-> << set_font(u.name \o <<"\n">>, "Arial", 16, TRUE, "none"),
                 set_font(contact_line(u), "Arial", 11, FALSE, "none") >>,
     alignment |-> "CENTER"]

\* The summary section is guarded by `"summary" in user_info` alone.
summary_section(doc, u) ==
    IF "summary" \in DOMAIN u
    THEN add_paragraph(add_paragraph(doc, <<"PROFESSIONAL SUMMARY">>, TRUE),
                       u.summary, FALSE)
    ELSE doc

\* A heading and one bulleted paragraph per item.
bulleted_section(doc, u, key, heading) ==
    IF Truthy(u, key)
    THEN add_paragraphs(add_paragraph(doc, <<heading>>, TRUE), Bullet, u[key])
    ELSE doc

RECURSIVE experience_blocks(_, _)
experience_blocks(doc, entries) ==
    IF entries = <<>> THEN doc
    ELSE LET e == Head(entries)
             d1 == add_paragraph(doc, e.title \o <<", ">> \o e.company \o <<", ">>
                                      \o e.location \o <<" (">> \o e.dates \o <<")">>,
                                 TRUE)
             d2 == add_paragraph(d1, <<"Skills: ">> \o e.skills, FALSE)
             d3 == add_paragraph(d2, <<"Actions: ">> \o e.actions, FALSE)
             d4 == add_paragraph(d3, <<"Results: ">> \o e.results, FALSE)
         IN  experience_blocks(d4, Tail(entries))

experience_section(doc, u) ==
    IF Truthy(u, "experience")
    THEN experience_blocks(add_paragraph(doc, <<"PROFESSIONAL EXPERIENCE">>, TRUE),
                           u.experience)
    ELSE doc

RECURSIVE education_lines(_, _)
education_lines(doc, entries) ==
    IF entries = <<>> THEN doc
    ELSE LET e == Head(entries)
         IN  education_lines(
                 add_paragraph(doc, e.degree \o <<", ">> \o e.institution
                                        \o <<", ">> \o e.location, FALSE),
                 Tail(entries))

education_section(doc, u) ==
    IF Truthy(u, "education")
    THEN education_lines(add_paragraph(doc, <<"EDUCATION">>, TRUE), u.education)
    ELSE doc

\* create_resume up to doc.save: the document and its path.
create_resume(u, job, dir) ==
    IF ~(ContactKeys \subseteq DOMAIN u) \/ ~("title" \in DOMAIN job)
    THEN [raised |-> "KeyError"]
    ELSE LET d0 == <<resume_header(u)>>
             d1 == summary_section(d0, u)
             d2 == bulleted_section(d1, u, "key_achievements", "KEY ACHIEVEMENTS")
             d3 == bulleted_section(d2, u, "core_competencies", "CORE COMPETENCIES")
             d4 == experience_section(d3, u)
             d5 == education_section(d4, u)
             d6 == bulleted_section(d5, u, "professional_development",
                                    "PROFESSIONAL DEVELOPMENT")
             d7 == bulleted_section(d6, u, "additional_skills",
                                    "ADDITIONAL SKILLS AND ACHIEVEMENTS")
             d8 == bulleted_section(d7, u, "soft_skills", "SOFT SKILLS")
         IN  [raised |-> "none", doc |-> d8,
              path |-> PathJoin(dir, u.name \o <<"_Resume_for_">> \o job.title
                                         \o <<".docx">>)]

\* ------------------------------------------------------------ cover letter

\* doc.add_paragraph(text): one run in the document's default style (size 0
\* stands for "not set").
plain_paragraph(text) ==
    [runs |-> <<set_font(text, "default", 0, FALSE, "none")>>,
     alignment |-> "DEFAULT"]

\* create_cover_letter up to doc.save.
create_cover_letter(u, job, company_name, dir) ==
    IF ~(ContactKeys \subseteq DOMAIN u) \/ ~("title" \in DOMAIN job)
    THEN [raised |-> "KeyError"]
    ELSE [raised |-> "none",
          doc |-> << plain_paragraph(<<"Dear Hiring Manager at ">> \o company_name),
                     plain_paragraph(<<"I am excited to apply for the position of ">>
                                     \o job.title \o <<". Your company's mission ...">>),
                     [runs |-> << set_font(<<"Sincerely,">>, "Calibri", 12, FALSE, "none"),
                                  set_font(<<"\n">> \o u.name \o <<"\n">> \o contact_line(u),
                                           "Calibri", 12, FALSE, "none") >>,
                      alignment |-> "LEFT"] >>,
          path |-> PathJoin(dir, u.name \o <<"_Cover_Letter_for_">> \o job.title
                                     \o <<".docx">>)]

\* ------------------------------------------------------------- file system

\* The output_dir the script passes to process_all_jobs.
output_dir == <<"Job_Applications">>

\* job["title"].replace(" ", "_") under output_dir.
job_output_dir(job) == PathJoin(output_dir, Replace(job.title, " ", "_"))

\* The directories on the way to path, path included.
Ancestors(path) ==
    {SubSeq(path, 1, k - 1) : k \in {n \in 1..Len(path) : path[n] = "/"}} \cup {path}

\* os.makedirs(path) without exist_ok: an existing directory is an error too.
makedirs_exist_not_ok(ds, fs, path) ==
    IF path \in ds \/ path \in DOMAIN fs
    THEN [raised |-> "FileExistsError", dirs |-> ds]
    ELSE [raised |-> "none", dirs |-> ds \cup Ancestors(path)]

\* os.makedirs(path, exist_ok=True): an existing directory is no error, an
\* existing file of that name is.
makedirs(ds, fs, path) ==
    IF path \in DOMAIN fs
    THEN [raised |-> "FileExistsError", dirs |-> ds]
    ELSE [raised |-> "none", dirs |-> ds \cup Ancestors(path)]

\* ------------------------------------------------------- process_all_jobs

Ended == pc \in {"done", "aborted"}

\* An uncaught exception leaves process_all_jobs: nothing catches it.
Abort(e) ==
    /\ pc' = "aborted"
    /\ error' = e
    /\ UNCHANGED <<user_info, job_descriptions, score, sink_fails, runs, run, i,
                   dirs, files, log, prev>>

\* doc.save(path) of a built document: the sink writes it, or raises.
Save(kind, built, nextpc, nexti) ==
    LET ok == <<i, kind>> \notin sink_fails IN
    /\ log' = Append(log, [job |-> i, kind |-> kind,
                           dir |-> job_output_dir(job_descriptions[i]),
                           path |-> built.path, doc |-> built.doc, saved |-> ok])
    /\ IF ok
       THEN /\ files' = (built.path :> built.doc) @@ files
            /\ pc' = nextpc
            /\ i' = nexti
            /\ error' = error
       ELSE /\ files' = files
            /\ pc' = "aborted"
            /\ i' = i
            /\ error' = "IOError"
    /\ UNCHANGED <<user_info, job_descriptions, score, sink_fails, runs, run,
                   dirs, prev>>

\* The directories of all the postings made at once, ahead of the documents.
MakeEveryScope ==
    /\ pc = "mkdir"
    /\ dirs' = dirs \cup UNION {Ancestors(job_output_dir(job_descriptions[j])) :
                                   j \in 1..Len(job_descriptions)}
    /\ pc' = "resume"
    /\ UNCHANGED <<user_info, job_descriptions, score, sink_fails, runs, run, i,
                   files, log, prev, error, matched>>

\* Lines 336-337: the posting's directory.
MakeScope ==
    /\ pc = "mkdir"
    /\ UNCHANGED matched
    /\ IF "title" \notin DOMAIN job_descriptions[i]
       THEN Abort("KeyError")
       ELSE LET made == makedirs(dirs, files, job_output_dir(job_descriptions[i]))
            IN  IF made.raised # "none"
                THEN Abort(made.raised)
                ELSE /\ dirs' = made.dirs
                     /\ pc' = "resume"
                     /\ UNCHANGED <<user_info, job_descriptions, score, sink_fails,
                                    runs, run, i, files, log, prev, error>>

\* Line 340: create_resume.
CreateResume ==
    /\ pc = "resume"
    /\ UNCHANGED matched
    /\ LET built == create_resume(user_info, job_descriptions[i],
                                  job_output_dir(job_descriptions[i]))
       IN  IF built.raised # "none"
           THEN Abort(built.raised)
           ELSE Save("resume", built, "cover", i)

\* Line 341: create_cover_letter; job["company"] is read to make the call.
CreateCoverLetter ==
    /\ pc = "cover"
    /\ UNCHANGED matched
    /\ IF "company" \notin DOMAIN job_descriptions[i]
       THEN Abort("KeyError")
       ELSE LET built == create_cover_letter(user_info, job_descriptions[i],
                                             job_descriptions[i].company,
                                             job_output_dir(job_descriptions[i]))
            IN  IF built.raised # "none"
                THEN Abort(built.raised)
                ELSE Save("cover", built, "matrix", i)

\* Line 342: create_intelligent_compatibility_matrix, then the loop goes on to
\* the next posting or ends.
CreateMatrix ==
    /\ pc = "matrix"
    /\ LET built == create_intelligent_compatibility_matrix(
                        user_info, job_descriptions[i],
                        job_output_dir(job_descriptions[i]))
       IN  /\ matched' = Append(matched,
                            [job |-> i, calls |-> built.calls, raised |-> built.raised,
                             compatibility_data |->
                                 IF built.raised = "none" THEN built.compatibility_data
                                 ELSE <<>>])
           /\ IF built.raised # "none"
              THEN Abort(built.raised)
              ELSE Save("matrix", built,
                        IF i + 1 > Len(job_descriptions) THEN "done" ELSE "mkdir",
                        i + 1)

\* The script is run again on the same inputs; the file system is what the
\* previous invocation left.
Rerun ==
    /\ Ended
    /\ run < runs
    /\ run' = run + 1
    /\ prev' = [log |-> log, matched |-> matched, error |-> error, pc |-> pc]
    /\ log' = <<>>
    /\ matched' = <<>>
    /\ error' = "none"
    /\ i' = 1
    /\ pc' = IF job_descriptions = <<>> THEN "done" ELSE "mkdir"
    /\ UNCHANGED <<user_info, job_descriptions, score, sink_fails, runs, dirs, files>>

NextSingle == MakeScope \/ CreateResume \/ CreateCoverLetter \/ CreateMatrix

Next == MakeScope \/ CreateResume \/ CreateCoverLetter \/ CreateMatrix \/ Rerun

\* ------------------------------------------------------------------ inputs

\* Responsibility strings, evidence strings (one of them with a line break) and
\* posting titles (two of them equal once spaces are replaced).
R1 == <<"r">>
R2 == <<"q">>
RespSet == {R1, R2}

E1 == <<"x">>
E2 == <<"y", "\n", "z">>
EvidSet == {E1, E2}

T1 == <<"a", " ", "b">>
T2 == <<"a", "_", "b">>
T3 == <<"c">>
TitleSet == {T1, T2, T3}

Contact ==
    [name |-> <<"N">>, location |-> <<"L">>, phone |-> <<"P">>,
     email |-> <<"M">>, linkedin |-> <<"K">>]

Exp(results) ==
    [company |-> <<"C">>, title |-> <<"J">>, location |-> <<"L">>,
     dates |-> <<"D">>, skills |-> <<"S">>, actions |-> <<"A">>,
     results |-> results]

Edu == [degree |-> <<"G">>, institution |-> <<"I">>, location |-> <<"L">>]

\* A complete profile with the three lists the evidence pool is made of.
Profile(ka, ex, as) ==
    Contact @@
    [summary |-> <<"s">>, key_achievements |-> ka, core_competencies |-> <<<<"c">>>>,
     experience |-> ex, education |-> <<Edu>>,
     professional_development |-> <<<<"d">>>>, additional_skills |-> as,
     soft_skills |-> <<<<"f">>>>]

Posting(title, responsibilities) ==
    [title |-> title, company |-> <<"Co">>, responsibilities |-> responsibilities]

NonEmptySeqUpTo(S, n) == SeqUpTo(S, n) \ {<<>>}

InitRun ==
    /\ run = 1
    /\ pc = IF job_descriptions = <<>> THEN "done" ELSE "mkdir"
    /\ i = 1
    /\ dirs = {}
    /\ files = <<>>
    /\ log = <<>>
    /\ prev = [log |-> <<>>, matched |-> <<>>, error |-> "none", pc |-> "none"]
    /\ matched = <<>>
    /\ error = "none"

Kinds == {"resume", "cover", "matrix"}

\* The sink writes everything, or raises on one document of one posting.
OneFault(jobs) == {{}} \cup {{f} : f \in (1..Len(jobs)) \X Kinds}

\* Orchestration: up to MaxJobs postings, titles that may collide, an evidence
\* pool that may be empty, a sink that may fail, the script run MaxRuns times.
Init ==
    /\ user_info \in {Profile(<<>>, <<>>, <<>>), Profile(<<E1>>, <<Exp(E2)>>, <<>>)}
    /\ job_descriptions \in
         NonEmptySeqUpTo({Posting(t, rs) : t \in TitleSet, rs \in {<<>>, <<R1>>}},
                         MaxJobs)
    /\ score = [p \in RespSet \X EvidSet |-> IF p[2] = E2 THEN 100 ELSE 0]
    /\ sink_fails \in OneFault(job_descriptions)
    /\ runs = MaxRuns
    /\ InitRun

Spec == Init /\ [][Next]_vars

\* Matching: one posting, every responsibility list up to MaxResp (repeats
\* included), the pools the three lists can make, every scorer with scores in
\* 0..MaxScore, a sink that writes everything.
InitMatch ==
    /\ user_info \in {Profile(ka, ex, as) :
                        ka \in SeqUpTo(EvidSet, MaxList),
                        ex \in SeqUpTo({Exp(E1)}, 1),
                        as \in SeqUpTo({E2}, 1)}
    /\ job_descriptions \in {<<Posting(T1, rs)>> : rs \in SeqUpTo(RespSet, MaxResp)}
    /\ score \in [RespSet \X EvidSet -> 0..MaxScore]
    /\ sink_fails = {}
    /\ runs = 1
    /\ InitRun

SpecMatch == InitMatch /\ [][NextSingle]_vars

\* One matching call: a posting with one responsibility, the pool every
\* non-empty sequence of up to MaxPool evidence strings, every scorer with
\* scores in 0..MaxScore.
InitPick ==
    /\ user_info \in {Profile(ka, <<>>, <<>>) : ka \in NonEmptySeqUpTo(EvidSet, MaxPool)}
    /\ job_descriptions \in {<<Posting(T3, <<q>>)>> : q \in RespSet}
    /\ score \in [RespSet \X EvidSet -> 0..MaxScore]
    /\ sink_fails = {}
    /\ runs = 1
    /\ InitRun

SpecPick == InitPick /\ [][NextSingle]_vars

\* Repeats: one posting, every responsibility list up to MaxRepeat, long
\* enough for a string to come back after another one; a pool of two strings,
\* every scorer with scores in 0..MaxScore.
InitDup ==
    /\ user_info = Profile(<<E1>>, <<>>, <<E2>>)
    /\ job_descriptions \in {<<Posting(T3, rs)>> : rs \in SeqUpTo(RespSet, MaxRepeat)}
    /\ score \in [RespSet \X EvidSet -> 0..MaxScore]
    /\ sink_fails = {}
    /\ runs = 1
    /\ InitRun

SpecDup == InitDup /\ [][NextSingle]_vars

\* Bullets: the pool is one evidence string, every string of up to MaxStr
\* letters, spaces and line breaks.
EvidenceChars == {"x", " ", "\n"}

InitBullets ==
    /\ user_info \in {Profile(<<e>>, <<>>, <<>>) : e \in SeqUpTo(EvidenceChars, MaxStr)}
    /\ job_descriptions = <<Posting(T3, <<R1>>)>>
    /\ score = [p \in RespSet \X SeqUpTo(EvidenceChars, MaxStr) |-> 0]
    /\ sink_fails = {}
    /\ runs = 1
    /\ InitRun

SpecBullets == InitBullets /\ [][NextSingle]_vars

\* Resume sections: each optional key of the profile is absent, present and
\* empty, or present and filled.
SectionKeys ==
    {"summary", "key_achievements", "core_competencies", "experience",
     "education", "professional_development", "additional_skills", "soft_skills"}

Filled(key) == Profile(<<E1>>, <<Exp(E2)>>, <<E1>>)[key]

InitResume ==
    /\ user_info \in
         {Contact @@ [k \in {x \in SectionKeys : shape[x] # "absent"} |->
                         IF shape[k] = "empty" THEN <<>> ELSE Filled(k)] :
            shape \in [SectionKeys -> {"absent", "empty", "filled"}]}
    /\ job_descriptions = <<Posting(T3, <<R1>>)>>
    /\ score = [p \in RespSet \X EvidSet |-> 0]
    /\ sink_fails = {}
    /\ runs = 1
    /\ InitRun

SpecResume == InitResume /\ [][NextSingle]_vars

\* Malformed input: the profile may lack its name, a posting may lack one of
\* its keys.
Without(d, key) == [k \in DOMAIN d \ {key} |-> d[k]]

PostingKeys == {"title", "company", "responsibilities"}

InitMalformed ==
    /\ user_info \in {Profile(<<E1>>, <<>>, <<>>),
                      Without(Profile(<<E1>>, <<>>, <<>>), "name")}
    /\ job_descriptions \in
         NonEmptySeqUpTo({Posting(t, <<R1>>) : t \in {T1, T3}}
                            \cup {Without(Posting(t, <<R1>>), k) :
                                     t \in {T1, T3}, k \in PostingKeys},
                         MaxJobs)
    /\ score = [p \in RespSet \X EvidSet |-> 0]
    /\ sink_fails = {}
    /\ runs = 1
    /\ InitRun

SpecMalformed == InitMalformed /\ [][NextSingle]_vars

\* ------------------------------------------------------------------ claims

Title(j) == job_descriptions[j].title

Responsibilities(j) == job_descriptions[j].responsibilities

\* The builder of document `kind` of posting j reached doc.save in this run.
Built(j, kind) == \E k \in 1..Len(log) : log[k].job = j /\ log[k].kind = kind

\* Document `kind` of posting j was written by the sink in this run.
Persisted(j, kind) ==
    \E k \in 1..Len(log) : log[k].job = j /\ log[k].kind = kind /\ log[k].saved

PoolIsEmpty ==
    /\ {"key_achievements", "experience", "additional_skills"} \subseteq DOMAIN user_info
    /\ all_experiences(user_info) = <<>>

\* C1: a failure while processing one posting (an empty evidence pool during
\* matching, or a failed save) does not stop the run: once the run is over, every
\* posting after the failing one has been processed, its resume, cover letter
\* and matrix builders having run.
C1_FailureDoesNotStopRun ==
    (pc = "aborted" /\ error \in {"TypeError", "IOError"})
        => \A j \in (i + 1)..Len(job_descriptions) :
              Built(j, "resume") /\ Built(j, "cover")

\* C2: when the run is over and the sink never failed, every posting with an
\* empty pool and a non-empty responsibility list has its resume and its cover
\* letter persisted and lacks only its matrix.
C2_EmptyPoolOnlyMatrixMissing ==
    (Ended /\ sink_fails = {} /\ PoolIsEmpty)
        => \A j \in 1..Len(job_descriptions) :
              Responsibilities(j) # <<>>
                  => /\ Persisted(j, "resume")
                     /\ Persisted(j, "cover")
                     /\ ~Built(j, "matrix")

TitlesCollide(t1, t2) ==
    /\ Len(t1) = Len(t2)
    /\ \A k \in 1..Len(t1) : t1[k] = t2[k] \/ {t1[k], t2[k]} = {" ", "_"}

C10_RerunReproduces ==
    (run > 1 /\ Ended)
        => /\ log = prev.log
           /\ matched = prev.matched
           /\ error = prev.error
           /\ pc = prev.pc

C10_Witness ==
    /\ run > 1
    /\ pc = "done"
    /\ Len(job_descriptions) > 1
    /\ Persisted(Len(job_descriptions), "matrix")
    /\ log = prev.log

\* ----------------------------------------------- claims about the matching

\* C3: for every query and every non-empty candidate sequence find_best_match
\* does not raise and returns the candidate at the first index whose score is
\* the largest of the sequence; for a sequence of one it returns that one.  The
\* call the matrix step made on the posting's own responsibility and pool gave
\* that candidate too.
C3_BestMatchIsFirstMaximum ==
    \A q \in RespSet : \A c \in NonEmptySeqUpTo(EvidSet, MaxPool) :
        LET best_match == find_best_match(q, c)
        IN  /\ ~find_best_match_raises(q, c)
            /\ \E k \in 1..Len(c) :
                  /\ best_match = c[k]
                  /\ \A n \in 1..Len(c) : score[<<q, c[n]>>] <= score[<<q, c[k]>>]
                  /\ \A n \in 1..(k - 1) : score[<<q, c[n]>>] < score[<<q, c[k]>>]
            /\ Len(c) = 1 => best_match = c[1]
            /\ \A n \in 1..Len(matched) :
                  matched[n].calls = <<<<q, c>>>>
                      => matched[n].compatibility_data = <<<<q, best_match>>>>

\* The matrix was built from a pool in which two different candidates tie for
\* the best score, and the earlier one was taken.
C3_Witness ==
    /\ matched # <<>>
    /\ matched[1].raised = "none"
    /\ \E n \in 1..Len(matched[1].calls) :
          LET q == matched[1].calls[n][1]
              c == matched[1].calls[n][2]
          IN  /\ Len(c) >= 2
              /\ c[1] # c[2]
              /\ score[<<q, c[1]>>] = score[<<q, c[2]>>]
              /\ \A m \in 1..Len(c) : score[<<q, c[m]>>] <= score[<<q, c[1]>>]
              /\ \E d \in 1..Len(matched[1].compatibility_data) :
                    matched[1].compatibility_data[d] = <<q, c[1]>>

Distinct(seq) == \A a, b \in 1..Len(seq) : a # b => seq[a] # seq[b]

\* The entry of the log that holds the matrix of posting j.
MatrixEntry(j) ==
    log[CHOOSE k \in 1..Len(log) : log[k].job = j /\ log[k].kind = "matrix"]

MatchedEntry(j) == matched[CHOOSE k \in 1..Len(matched) : matched[k].job = j]

\* C5: once the matrix step of a posting with n pairwise distinct
\* responsibilities and a non-empty pool has run, the mapping has one entry per
\* responsibility, in the posting's order, each value an element of the pool of
\* the best score, and the table has n + 1 rows: the header, then row m with
\* responsibility m as it is on the left and its evidence, bulleted, on the right.
C5_OneRowPerResponsibility ==
    \A j \in 1..Len(job_descriptions) :
        (/\ \E k \in 1..Len(matched) : matched[k].job = j
         /\ all_experiences(user_info) # <<>>
         /\ Distinct(Responsibilities(j)))
        => LET rs == Responsibilities(j)
               pool == all_experiences(user_info)
               cd == MatchedEntry(j).compatibility_data
           IN  /\ MatchedEntry(j).raised = "none"
               /\ Built(j, "matrix")
               /\ Len(cd) = Len(rs)
               /\ Len(MatrixEntry(j).doc[3].rows) = Len(rs) + 1
               /\ MatrixEntry(j).doc[3].rows[1][1].runs[1].text = <<"JOB RESPONSIBILITIES">>
               /\ MatrixEntry(j).doc[3].rows[1][2].runs[1].text = <<"DEMONSTRATED RESULTS">>
               /\ \A m \in 1..Len(rs) :
                     /\ cd[m][1] = rs[m]
                     /\ cd[m][2] \in Range(pool)
                     /\ \A e \in Range(pool) :
                           score[<<rs[m], e>>] <= score[<<rs[m], cd[m][2]>>]
                     /\ Len(MatrixEntry(j).doc[3].rows[m + 1][1].runs) = 1
                     /\ MatrixEntry(j).doc[3].rows[m + 1][1].runs[1].text = rs[m]
                     /\ MatrixEntry(j).doc[3].rows[m + 1][2].runs = result_runs(cd[m][2])

C5_Witness ==
    /\ pc = "done"
    /\ Responsibilities(1) = <<R2, R1>>
    /\ Built(1, "matrix")
    /\ Len(MatrixEntry(1).doc[3].rows) = 3
    /\ MatchedEntry(1).compatibility_data[1][2] # MatchedEntry(1).compatibility_data[2][2]

\* ------------------------------------------------ claims about the bullets

CountOf(s, ch) == Cardinality({n \in 1..Len(s) : s[n] = ch})

\* The k-th line of s: the characters with k - 1 line breaks before them; and
\* that line without the whitespace around it.
LineIndexes(s, k) ==
    {n \in 1..Len(s) : s[n] # "\n" /\ CountOf(SubSeq(s, 1, n - 1), "\n") = k - 1}

TrimmedLine(s, k) ==
    LET inked == {n \in LineIndexes(s, k) : s[n] \notin Whitespace}
    IN  IF inked = {} THEN <<>>
        ELSE SubSeq(s, CHOOSE n \in inked : \A m \in inked : n <= m,
                       CHOOSE n \in inked : \A m \in inked : m <= n)

NonBlankLines(s) ==
    Cardinality({k \in 1..(CountOf(s, "\n") + 1) : TrimmedLine(s, k) # <<>>})

\* The runs of the right cell of the first data row of posting j's matrix.
RightCellRuns(j) == MatrixEntry(j).doc[3].rows[2][2].runs

\* C7, as stated: the right cell holds one bullet per non-empty trimmed line, so
\* k non-blank lines give exactly k bullets and blank lines give none.
C7_OneBulletPerNonBlankLine ==
    \A j \in 1..Len(job_descriptions) :
        (Built(j, "matrix") /\ Responsibilities(j) # <<>>)
            => Len(RightCellRuns(j)) = NonBlankLines(MatchedEntry(j).compatibility_data[1][2])

\* C7, amended: the right cell holds one bullet per line of the evidence, blank
\* lines included (a blank line gives a bullet with no text): k line breaks give
\* k + 1 bullets, in line order, each the bullet mark, the trimmed line, a break.
C7_OneBulletPerLine ==
    \A j \in 1..Len(job_descriptions) :
        (Built(j, "matrix") /\ Responsibilities(j) # <<>>)
            => LET e == MatchedEntry(j).compatibility_data[1][2]
               IN  /\ Len(RightCellRuns(j)) = CountOf(e, "\n") + 1
                   /\ \A k \in 1..Len(RightCellRuns(j)) :
                         RightCellRuns(j)[k].text
                             = Bullet \o TrimmedLine(e, k) \o <<"\n">>

\* An evidence string with a blank line between two lines that hold text, one
\* of them with whitespace around it: three bullets, the middle one empty.
C7_Witness ==
    /\ Built(1, "matrix")
    /\ Len(RightCellRuns(1)) = 3
    /\ RightCellRuns(1)[1].text = Bullet \o <<"x", "\n">>
    /\ RightCellRuns(1)[2].text = Bullet \o <<"\n">>
    /\ RightCellRuns(1)[3].text = Bullet \o <<"x", "\n">>
    /\ NonBlankLines(MatchedEntry(1).compatibility_data[1][2]) = 2

\* ------------------------------------------------- claims about the resume

HasHeading(doc, heading) ==
    \E k \in 1..Len(doc) : doc[k].runs[1].text = <<heading>> /\ doc[k].runs[1].bold

HeadingOf(key) ==
    CASE key = "summary" -> "PROFESSIONAL SUMMARY"
      [] key = "key_achievements" -> "KEY ACHIEVEMENTS"
      [] key = "core_competencies" -> "CORE COMPETENCIES"
      [] key = "experience" -> "PROFESSIONAL EXPERIENCE"
      [] key = "education" -> "EDUCATION"
      [] key = "professional_development" -> "PROFESSIONAL DEVELOPMENT"
      [] key = "additional_skills" -> "ADDITIONAL SKILLS AND ACHIEVEMENTS"
      [] key = "soft_skills" -> "SOFT SKILLS"

\* C6: in every resume built, the heading of each of the eight sections is
\* there exactly when the profile holds the section's key with a non-empty value.
C6_SectionIffPresentAndNonEmpty ==
    \A k \in 1..Len(log) :
        log[k].kind = "resume"
            => \A key \in SectionKeys :
                  HasHeading(log[k].doc, HeadingOf(key))
                      <=> (key \in DOMAIN user_info /\ user_info[key] # <<>>)

\* ----------------------------------------------- claims about missing keys

RequiredPresent(j) ==
    /\ "name" \in DOMAIN user_info
    /\ PostingKeys \subseteq DOMAIN job_descriptions[j]

\* C8: no document is built or persisted for a posting when the candidate name
\* or one of the posting's title, company and responsibilities is missing.
C8_MalformedPostingBuildsNothing ==
    \A k \in 1..Len(log) : RequiredPresent(log[k].job)

\* ------------------------------------- claims about the responsibility list

\* C11: once the matrix step of a posting with an empty responsibility list and
\* a non-empty pool has run, nothing was raised, find_best_match was never
\* called, the mapping is empty, and the matrix built for the posting has the
\* header row and no data row.
C11_EmptyListGivesHeaderOnly ==
    \A j \in 1..Len(job_descriptions) :
        (/\ \E k \in 1..Len(matched) : matched[k].job = j
         /\ Responsibilities(j) = <<>>
         /\ Len(user_info.key_achievements) + Len(user_info.experience)
               + Len(user_info.additional_skills) > 0)
        => /\ MatchedEntry(j).raised = "none"
           /\ MatchedEntry(j).calls = <<>>
           /\ MatchedEntry(j).compatibility_data = <<>>
           /\ Built(j, "matrix")
           /\ Len(MatrixEntry(j).doc[3].rows) = 1
           /\ MatrixEntry(j).doc[3].rows[1][1].runs[1].text = <<"JOB RESPONSIBILITIES">>
           /\ MatrixEntry(j).doc[3].rows[1][2].runs[1].text = <<"DEMONSTRATED RESULTS">>

C11_Witness ==
    /\ pc = "done"
    /\ error = "none"
    /\ Responsibilities(1) = <<>>
    /\ all_experiences(user_info) # <<>>
    /\ Persisted(1, "matrix")
    /\ MatrixEntry(1).doc[3].rows = <<header_row>>

\* ------------------------------------------------ claims about the pool

\* The pool of the profile, position by position: the key achievements, then
\* the results of the experiences, then the additional skills.
IsPoolOfProfile(pool) ==
    LET ka == user_info.key_achievements
        ex == user_info.experience
        sk == user_info.additional_skills
    IN  /\ Len(pool) = Len(ka) + Len(ex) + Len(sk)
        /\ \A n \in 1..Len(ka) : pool[n] = ka[n]
        /\ \A n \in 1..Len(ex) : pool[Len(ka) + n] = ex[n].results
        /\ \A n \in 1..Len(sk) : pool[Len(ka) + Len(ex) + n] = sk[n]

\* Every call of find_best_match recorded so far got the pool of the profile,
\* and the n-th call got the n-th responsibility of its posting.
EveryCallGetsThePool ==
    \A k \in 1..Len(matched) :
        \A n \in 1..Len(matched[k].calls) :
            /\ IsPoolOfProfile(matched[k].calls[n][2])
            /\ matched[k].calls[n][1] = Responsibilities(matched[k].job)[n]

\* C12: within one posting every call of find_best_match receives the same pool
\* (key achievements, then the results of each experience, then additional
\* skills, each in order), and no step changes the profile, so the pool stays
\* the pool of the unchanged profile between and across the calls.
C12_SamePoolEveryCall ==
    [][/\ user_info' = user_info
       /\ EveryCallGetsThePool']_vars

C12_Witness ==
    /\ pc = "done"
    /\ Len(MatchedEntry(1).calls) = 2
    /\ user_info.key_achievements # <<>>
    /\ user_info.experience # <<>>
    /\ user_info.additional_skills # <<>>
    /\ user_info.key_achievements[1] # user_info.experience[1].results
    /\ MatchedEntry(1).calls[1][2] = MatchedEntry(1).calls[2][2]
    /\ IsPoolOfProfile(MatchedEntry(1).calls[2][2])

\* ------------------------------------------------- claims about the order

KindRank(kind) == CASE kind = "resume" -> 1 [] kind = "cover" -> 2 [] kind = "matrix" -> 3

\* Entry k of the log was preceded, in this run, by the written document `kind`
\* of posting j.
WrittenBefore(k, j, kind) ==
    \E m \in 1..(k - 1) : log[m].job = j /\ log[m].kind = kind /\ log[m].saved

\* The documents reach the sink posting by posting, and within a posting as
\* resume, cover letter, matrix; none is skipped and none comes twice.
LogInOrder ==
    /\ \A a, b \in 1..Len(log) :
          a < b => \/ log[a].job < log[b].job
                   \/ /\ log[a].job = log[b].job
                      /\ KindRank(log[a].kind) < KindRank(log[b].kind)
    /\ \A k \in 1..Len(log) :
          /\ log[k].kind = "resume" /\ log[k].job > 1
                => WrittenBefore(k, log[k].job - 1, "matrix")
          /\ log[k].kind = "cover"  => WrittenBefore(k, log[k].job, "resume")
          /\ log[k].kind = "matrix" => WrittenBefore(k, log[k].job, "cover")

\* The directory of a document exists when the document reaches the sink.
ScopeBeforeDocuments == \A k \in 1..Len(log) : log[k].dir \in dirs

\* A step that attempts matching does so for the current posting, after its
\* resume and its cover letter were written and before its matrix, and with
\* nothing of a later posting at the sink.
LettersBeforeMatching ==
    Len(matched') = Len(matched) + 1 =>
        /\ matched'[Len(matched')].job = i
        /\ Persisted(i, "resume")
        /\ Persisted(i, "cover")
        /\ ~Built(i, "matrix")
        /\ \A m \in 1..Len(log) : log[m].job <= i

\* A step that makes a directory makes the one of the current posting, before
\* any of its documents, after the matrix of every earlier posting was written.
ScopeStepIsForCurrentPosting ==
    dirs' # dirs =>
        /\ dirs' \ dirs \subseteq Ancestors(job_output_dir(job_descriptions[i]))
        /\ job_output_dir(job_descriptions[i]) \in dirs'
        /\ \A k \in 1..Len(log) : log[k].job < i
        /\ \A j \in 1..(i - 1) : Persisted(j, "matrix")
        /\ UNCHANGED <<files, log, matched>>

\* A step that sends a document to the sink sends one of the current posting,
\* into the posting's directory, which exists already.
SinkStepIsForCurrentPosting ==
    Len(log') = Len(log) + 1 =>
        /\ log'[Len(log')].job = i
        /\ log'[Len(log')].dir = job_output_dir(job_descriptions[i])
        /\ log'[Len(log')].dir \in dirs
        /\ \A j \in 1..(i - 1) : Persisted(j, "matrix")
        /\ DOMAIN files' \ DOMAIN files \subseteq {log'[Len(log')].path}

\* C13: postings are handled in input order without interleaving: the
\* directory of a posting is made before any of its documents is written, the
\* documents are written as resume, cover letter, matrix, matching is attempted
\* only after resume and cover letter were written, and nothing is made or
\* written for the next posting until the matrix of the current one was written.
C13_InOrderNoInterleaving ==
    [][/\ LogInOrder'
       /\ ScopeBeforeDocuments'
       /\ LettersBeforeMatching
       /\ ScopeStepIsForCurrentPosting
       /\ SinkStepIsForCurrentPosting]_vars

C13_Witness ==
    /\ run = 1
    /\ pc = "done"
    /\ Len(job_descriptions) = 2
    /\ job_output_dir(job_descriptions[1]) # job_output_dir(job_descriptions[2])
    /\ Len(log) = 6
    /\ \A k \in 1..6 : log[k].saved
    /\ Len(matched) = 2
    /\ Responsibilities(2) # <<>>

\* ----------------------------------------------- claims about repeats

\* The index of the first occurrence of x in seq.
FirstIndex(seq, x) ==
    CHOOSE n \in 1..Len(seq) : seq[n] = x /\ \A m \in 1..(n - 1) : seq[m] # x

\* The number of distinct strings of seq up to the first occurrence of x, x
\* included.
DistinctUpTo(seq, x) == Cardinality(Range(SubSeq(seq, 1, FirstIndex(seq, x))))

\* C14: once the matrix step of a posting whose responsibility list repeats a
\* string has run (on a non-empty pool), the mapping has one entry per distinct
\* string, the table has as many data rows as there are distinct strings, and
\* the row of every string, repeated or not, stands where its first occurrence
\* puts it: after the rows of the distinct strings that come before it.
C14_RepeatKeepsOneRow ==
    \A j \in 1..Len(job_descriptions) :
        (/\ \E k \in 1..Len(matched) : matched[k].job = j
         /\ Len(user_info.key_achievements) + Len(user_info.experience)
               + Len(user_info.additional_skills) > 0
         /\ ~Distinct(Responsibilities(j)))
        => LET rs == Responsibilities(j)
               cd == MatchedEntry(j).compatibility_data
           IN  /\ MatchedEntry(j).raised = "none"
               /\ Len(MatchedEntry(j).calls) = Len(rs)
               /\ Len(cd) = Cardinality(Range(rs))
               /\ Built(j, "matrix")
               /\ Len(MatrixEntry(j).doc[3].rows) = 1 + Cardinality(Range(rs))
               /\ \A x \in Range(rs) :
                     /\ cd[DistinctUpTo(rs, x)][1] = x
                     /\ MatrixEntry(j).doc[3].rows[1 + DistinctUpTo(rs, x)][1].runs[1].text = x
                     /\ MatrixEntry(j).doc[3].rows[1 + DistinctUpTo(rs, x)][2].runs
                           = result_runs(cd[DistinctUpTo(rs, x)][2])

C14_Witness ==
    /\ pc = "done"
    /\ Responsibilities(1) = <<R1, R2, R1>>
    /\ Persisted(1, "matrix")
    /\ Len(MatrixEntry(1).doc[3].rows) = 3
    /\ MatrixEntry(1).doc[3].rows[2][1].runs[1].text = R1
    /\ MatrixEntry(1).doc[3].rows[3][1].runs[1].text = R2

====
